---- MODULE Spec2Model ----
(***************************************************************************)
(* hashy: the discovery / dispatch / aggregation pipeline of src/main.rs.  *)
(* start_iter puts the Walker job on the thread pool; the Walker sends one *)
(* Work::Directory per directory entry and then Work::DiscoveryComplete on *)
(* an unbounded mpsc channel; main (the Aggregator) receives, submits one  *)
(* hash job per Work::Directory to the same pool, and handles the          *)
(* Work::Parsed / Work::Empty the jobs send back.                          *)
(***************************************************************************)
EXTENDS Integers, Sequences, FiniteSets, Bags, TLC

\* Bounds of the model.
MaxEntries == 3
MaxWorkers == 2

\* TopCollector::with_limit(10)
TopLimit == 10

VARIABLES
    mode,           \* args.output: "File" (Some(out)) or "Stdout" (None)
    tree,           \* the Ok entries WalkDir yields, in order: a sequence of kinds
    max_count,      \* number of pool threads
    queue,          \* the pool's FIFO job queue
    active,         \* bag of the jobs the pool threads are running
    count,          \* the Walker's local `count`
    next_index,     \* the next index enumerate() hands the Walker
    chan,           \* the mpsc channel: messages sent and not yet received
    senders,        \* live Sender<Work> handles (tx, tx_send and their clones)
    agg,            \* main: "recv" | "drained" | "returned" | "panicked" | "aborted"
    pb,             \* the Progress value
    output,         \* lines written to the Output, in order
    docs,           \* paths of the documents added to the index writer
    signal_failed,  \* some send hit a dropped receiver ("Could not signal pool")
    sent,           \* history: bag of the messages put on the channel
    handled,        \* history: bag of the messages rx.recv() returned
    processed,      \* history: bag of [index, result] of processor::process runs
    rd              \* the locals of one processor::process call followed step by step

vars == <<rd, mode, tree, max_count, queue, active, count, next_index, chan, senders,
          agg, pb, output, docs, signal_failed, sent, handled, processed>>

----------------------------------------------------------------------------
\* The file system as the walk sees it.

\* A directory, a file, or "sink": the file File::create(&out) made, when it
\* lies in the tree.
Kinds == {"dir", "file", "sink"}

\* content_inspector::ContentType
ContentTypes == {"BINARY", "UTF_8", "UTF_8_BOM", "UTF_16LE", "UTF_16BE",
                 "UTF_32LE", "UTF_32BE"}

\* ParsedFile.content_type: Option<ContentType>; "EMPTY" stands for None (the
\* file had no bytes).
Tags == ContentTypes \cup {"EMPTY"}

\* The tags the files of the bounded trees are given: one for each arm of
\* str_content, and EMPTY.
FileTags == {t \in Tags : t \in {"EMPTY", "BINARY", "UTF_8", "UTF_16LE", "UTF_32LE"}}

RECURSIVE SeqsUpTo(_, _)
SeqsUpTo(S, n) ==
    IF n = 0 THEN {<<>>}
    ELSE LET shorter == SeqsUpTo(S, n - 1)
         IN  shorter \cup {Append(s, x) : s \in shorter, x \in S}

SinkCount(t) == Cardinality({p \in 1..Len(t) : t[p] = "sink"})

\* WalkDir yields the root directory first; an error on the root leaves nothing.
\* The output file exists only with -o, and once.
Trees(m) ==
    {t \in SeqsUpTo(Kinds, MaxEntries) :
        /\ (Len(t) > 0 => t[1] = "dir")
        /\ SinkCount(t) <= (IF m = "File" THEN 1 ELSE 0)}

\* processor::process(path): None stands for the failure outcome (open or read
\* error); reading a directory fails; anything else may succeed with any tag
\* or fail.
process(kind) ==
    IF kind = "dir" THEN {"None"} ELSE FileTags \cup {"None"}

----------------------------------------------------------------------------
\* progress.rs

Progress_new ==
    [count |-> 0, success |-> 0, enabled |-> FALSE, pb |-> "None",
     total |-> 0, current |-> 0]

set_enabled(p, value) == [p EXCEPT !.enabled = value]

build_status(p) ==
    IF ~p.enabled THEN p
    ELSE [p EXCEPT !.pb = "Tick", !.total = 0, !.current = 0]

\* build_bar without the enabled check.
build_bar_Unconditional(p, total) ==
    [p EXCEPT !.pb = "Inc", !.total = total, !.current = p.count]

build_bar(p, total) ==
    IF ~p.enabled THEN p
    ELSE [p EXCEPT !.pb = "Inc", !.total = total, !.current = p.count]

\* inc that advances the counter but not the bar.
inc_WithoutBar(p) == [p EXCEPT !.count = @ + 1]

inc(p) ==
    LET q == [p EXCEPT !.count = @ + 1]
    IN  IF q.pb = "Inc" THEN [q EXCEPT !.current = @ + 1] ELSE q

inc_success(p) == [inc(p) EXCEPT !.success = @ + 1]

----------------------------------------------------------------------------
\* Messages and jobs.

Directory(path, index) == [type |-> "Directory", path |-> path, index |-> index]
Parsed(entry, path, index) ==
    [type |-> "Parsed", entry |-> entry, path |-> path, index |-> index]
Empty(index) == [type |-> "Empty", index |-> index]
DiscoveryComplete(n) == [type |-> "DiscoveryComplete", count |-> n]

WalkJob == [type |-> "walk"]
HashJob(path, index) == [type |-> "hash", path |-> path, index |-> index]

\* The process lives until main returns or its panic has unwound.
Alive == agg \in {"recv", "drained", "panicked"}

\* rx is a local of main: it is dropped when main unwinds.
RxAlive == agg \in {"recv", "drained"}

\* Send on a channel that hands out the newest message first.
Send_NewestFirst(m) ==
    IF RxAlive
    THEN /\ chan' = <<m>> \o chan
         /\ sent' = sent (+) SetToBag({m})
         /\ UNCHANGED signal_failed
    ELSE /\ signal_failed' = TRUE
         /\ UNCHANGED <<chan, sent>>

\* tx.send(m): Ok while the receiver lives, Err (and the expect panics) after.
Send(m) ==
    IF RxAlive
    THEN /\ chan' = Append(chan, m)
         /\ sent' = sent (+) SetToBag({m})
         /\ UNCHANGED signal_failed
    ELSE /\ signal_failed' = TRUE
         /\ UNCHANGED <<chan, sent>>

\* In the pipeline's own specification no process call is followed.
NotFollowed == [state |-> "none"]

----------------------------------------------------------------------------
Init ==
    /\ mode \in {"File", "Stdout"}
    /\ tree \in Trees(mode)
    /\ max_count \in 1..MaxWorkers
    /\ queue = <<WalkJob>>
    /\ active = EmptyBag
    /\ count = 0
    /\ next_index = 0
    /\ chan = <<>>
    /\ senders = 2
    /\ agg = "recv"
    /\ pb = build_status(IF mode = "File" THEN set_enabled(Progress_new, TRUE)
                                          ELSE Progress_new)
    /\ output = <<>>
    /\ docs = <<>>
    /\ signal_failed = FALSE
    /\ sent = EmptyBag
    /\ handled = EmptyBag
    /\ processed = EmptyBag
    /\ rd = NotFollowed

\* An idle pool thread takes the job at the head of the queue.
TakeJob ==
    /\ Alive
    /\ BagCardinality(active) < max_count
    /\ queue # <<>>
    /\ active' = active (+) SetToBag({Head(queue)})
    /\ queue' = Tail(queue)
    /\ UNCHANGED <<rd, mode, tree, max_count, count, next_index, chan, senders, agg,
                   pb, output, docs, signal_failed, sent, handled, processed>>

\* One iteration of the Walker's for loop: send Work::Directory for the next
\* entry with a clone of tx_send, then count = index.  A failed send panics the
\* job, which drops tx and tx_send.
WalkerSend ==
    /\ Alive
    /\ BagIn(WalkJob, active)
    /\ next_index < Len(tree)
    /\ Send(Directory(next_index + 1, next_index))
    /\ IF RxAlive
       THEN /\ senders' = senders + 1
            /\ count' = next_index
            /\ next_index' = next_index + 1
            /\ UNCHANGED active
       ELSE /\ senders' = senders - 2
            /\ active' = active (-) SetToBag({WalkJob})
            /\ UNCHANGED <<count, next_index>>
    /\ UNCHANGED <<rd, mode, tree, max_count, queue, agg, pb, output, docs,
                   handled, processed>>

\* WalkerComplete without its place after the loop: the signal may be sent
\* while entries remain.
WalkerComplete_BeforeLoopEnd ==
    /\ Alive
    /\ BagIn(WalkJob, active)
    /\ Send(DiscoveryComplete(count))
    /\ senders' = senders - 2
    /\ active' = active (-) SetToBag({WalkJob})
    /\ UNCHANGED <<rd, mode, tree, max_count, queue, count, next_index, agg, pb,
                   output, docs, handled, processed>>

\* After the loop: send Work::DiscoveryComplete { count }, and the closure ends,
\* dropping tx and tx_send.
WalkerComplete ==
    /\ Alive
    /\ BagIn(WalkJob, active)
    /\ next_index = Len(tree)
    /\ Send(DiscoveryComplete(count))
    /\ senders' = senders - 2
    /\ active' = active (-) SetToBag({WalkJob})
    /\ UNCHANGED <<rd, mode, tree, max_count, queue, count, next_index, agg, pb,
                   output, docs, handled, processed>>

\* RunHashJob reporting a failed process as Work::Parsed with no content type.
RunHashJob_FailureAsParsed ==
    /\ Alive
    /\ \E job \in BagToSet(active) :
          /\ job.type = "hash"
          /\ \E r \in process(tree[job.path]) :
                /\ processed' = processed (+)
                                   SetToBag({[index |-> job.index, result |-> r]})
                /\ IF r = "None"
                   THEN Send(Parsed("EMPTY", job.path, job.index))
                   ELSE Send(Parsed(r, job.path, job.index))
          /\ active' = active (-) SetToBag({job})
    /\ senders' = senders - 1
    /\ UNCHANGED <<rd, mode, tree, max_count, queue, count, next_index, agg, pb,
                   output, docs, handled>>

\* RunHashJob that runs process again after a failure instead of reporting it.
RunHashJob_RetryOnFailure ==
    /\ Alive
    /\ \E job \in BagToSet(active) :
          /\ job.type = "hash"
          /\ \E r \in process(tree[job.path]) :
                /\ processed' = processed (+)
                                   SetToBag({[index |-> job.index, result |-> r]})
                /\ IF r = "None"
                   THEN UNCHANGED <<chan, sent, signal_failed, active, senders>>
                   ELSE /\ Send(Parsed(r, job.path, job.index))
                        /\ active' = active (-) SetToBag({job})
                        /\ senders' = senders - 1
    /\ UNCHANGED <<rd, mode, tree, max_count, queue, count, next_index, agg, pb,
                   output, docs, handled>>

\* The closure main gives the pool for a Work::Directory: process the path,
\* send Work::Empty or Work::Parsed, drop tx.
RunHashJob ==
    /\ Alive
    /\ \E job \in BagToSet(active) :
          /\ job.type = "hash"
          /\ \E r \in process(tree[job.path]) :
                /\ processed' = processed (+)
                                   SetToBag({[index |-> job.index, result |-> r]})
                /\ IF r = "None"
                   THEN Send(Empty(job.index))
                   ELSE Send(Parsed(r, job.path, job.index))
          /\ active' = active (-) SetToBag({job})
    /\ senders' = senders - 1
    /\ UNCHANGED <<rd, mode, tree, max_count, queue, count, next_index, agg, pb,
                   output, docs, handled>>

\* rx.recv() returns Ok(Head(chan)) while a message is buffered.
CanRecv(type) ==
    /\ agg = "recv"
    /\ chan # <<>>
    /\ Head(chan).type = type

Received ==
    /\ chan' = Tail(chan)
    /\ handled' = handled (+) SetToBag({Head(chan)})

\* Work::Directory { tx, path, index } => pool.execute(...): tx moves into the job.
RecvDirectory ==
    /\ CanRecv("Directory")
    /\ Received
    /\ queue' = Append(queue, HashJob(Head(chan).path, Head(chan).index))
    /\ UNCHANGED <<rd, mode, tree, max_count, active, count, next_index, senders,
                   agg, pb, output, docs, signal_failed, sent, processed>>

\* Work::Empty { index: _ } => pb.inc()
RecvEmpty ==
    /\ CanRecv("Empty")
    /\ Received
    /\ pb' = inc(pb)
    /\ UNCHANGED <<rd, mode, tree, max_count, queue, active, count, next_index,
                   senders, agg, output, docs, signal_failed, sent, processed>>

HashLine(entry, path) == [kind |-> "hash", content_type |-> entry, path |-> path]
DocLine(path) == [kind |-> "doc", title |-> path]

\* print_hash: the File arm writes the line; the Stdout arm first canonicalizes
\* the path and strips the working directory, and either expect may panic (the
\* file vanished, or resolves outside the working directory).
print_hash(m) ==
    IF m = "File" THEN {"written"} ELSE {"written", "panic"}

\* ParsedFile::str_content: None without a content type or for BINARY, Some for
\* the UTF-8 and UTF-16 tags, and panic!("I'll get to utf-32 later") otherwise.
str_content(entry) ==
    IF entry \in {"EMPTY", "BINARY"} THEN "None"
    ELSE IF entry \in {"UTF_8", "UTF_8_BOM", "UTF_16LE", "UTF_16BE"} THEN "Some"
    ELSE "panic"

\* Work::Parsed { entry, path, index: _ } => print_hash, add the document,
\* pb.inc_success()
RecvParsed ==
    /\ CanRecv("Parsed")
    /\ Received
    /\ LET m == Head(chan) IN
       \E printed \in print_hash(mode) :
          IF printed = "panic"
          THEN /\ agg' = "panicked"
               /\ UNCHANGED <<output, docs, pb>>
          ELSE /\ output' = Append(output, HashLine(m.entry, m.path))
               /\ IF str_content(m.entry) = "panic"
                  THEN /\ agg' = "panicked"
                       /\ UNCHANGED <<docs, pb>>
                  ELSE /\ docs' = Append(docs, m.path)
                       /\ pb' = inc_success(pb)
                       /\ UNCHANGED agg
    /\ UNCHANGED <<rd, mode, tree, max_count, queue, active, count, next_index,
                   senders, signal_failed, sent, processed>>

\* Work::DiscoveryComplete { count } => pb.build_bar(count)
RecvDiscoveryComplete ==
    /\ CanRecv("DiscoveryComplete")
    /\ Received
    /\ pb' = build_bar(pb, Head(chan).count)
    /\ UNCHANGED <<rd, mode, tree, max_count, queue, active, count, next_index,
                   senders, agg, output, docs, signal_failed, sent, processed>>

\* RecvDisconnected that reports the disconnect while messages are buffered.
RecvDisconnected_IgnoringBuffer ==
    /\ agg = "recv"
    /\ senders = 0
    /\ agg' = "drained"
    /\ UNCHANGED <<rd, mode, tree, max_count, queue, active, count, next_index, chan,
                   senders, pb, output, docs, signal_failed, sent, handled,
                   processed>>

\* rx.recv() returns Err: nothing is buffered and every Sender is dropped.
RecvDisconnected ==
    /\ agg = "recv"
    /\ chan = <<>>
    /\ senders = 0
    /\ agg' = "drained"
    /\ UNCHANGED <<rd, mode, tree, max_count, queue, active, count, next_index, chan,
                   senders, pb, output, docs, signal_failed, sent, handled,
                   processed>>

RECURSIVE Arrangements(_, _)
\* The sequences of at most n distinct elements of S.
Arrangements(S, n) ==
    IF n = 0 \/ S = {} THEN {<<>>}
    ELSE {<<>>} \cup
         UNION {{<<x>> \o rest : rest \in Arrangements(S \ {x}, n - 1)} : x \in S}

\* After the loop: commit, search the index for "this is let mut", and write
\* the Debug form of each of the top documents to the output.  Which documents
\* match depends on the files' paths and text.
SearchAndPrint ==
    /\ agg = "drained"
    /\ \E hits \in Arrangements(1..Len(docs), TopLimit) :
          output' = output \o [k \in 1..Len(hits) |-> DocLine(docs[hits[k]])]
    /\ agg' = "returned"
    /\ UNCHANGED <<rd, mode, tree, max_count, queue, active, count, next_index, chan,
                   senders, pb, docs, signal_failed, sent, handled, processed>>

\* A panic of main unwinds (dropping rx) and ends the process.
Abort ==
    /\ agg = "panicked"
    /\ agg' = "aborted"
    /\ UNCHANGED <<rd, mode, tree, max_count, queue, active, count, next_index, chan,
                   senders, pb, output, docs, signal_failed, sent, handled,
                   processed>>

Next ==
    \/ TakeJob
    \/ WalkerSend
    \/ WalkerComplete
    \/ RunHashJob
    \/ RecvDirectory
    \/ RecvEmpty
    \/ RecvParsed
    \/ RecvDiscoveryComplete
    \/ RecvDisconnected
    \/ SearchAndPrint
    \/ Abort

Spec == Init /\ [][Next]_vars

\* The pool threads and the main thread are operating-system threads: each
\* enabled step is eventually taken.
FairSpec ==
    /\ Spec
    /\ WF_vars(TakeJob)
    /\ WF_vars(WalkerSend)
    /\ WF_vars(WalkerComplete)
    /\ WF_vars(RunHashJob)
    /\ WF_vars(RecvDirectory)
    /\ WF_vars(RecvEmpty)
    /\ WF_vars(RecvParsed)
    /\ WF_vars(RecvDiscoveryComplete)
    /\ WF_vars(RecvDisconnected)
    /\ WF_vars(SearchAndPrint)
    /\ WF_vars(Abort)

TypeOK ==
    /\ mode \in {"File", "Stdout"}
    /\ max_count \in 1..MaxWorkers
    /\ senders \in Nat
    /\ agg \in {"recv", "drained", "returned", "panicked", "aborted"}
    /\ next_index \in 0..Len(tree)

----------------------------------------------------------------------------
\* Counting over the histories.

\* The sub-bag of B on the elements S of its domain.
Restrict(B, S) == [m \in S |-> B[m]]

IsTask(m) == m.type = "Directory"
IsDiscoveryComplete(m) == m.type = "DiscoveryComplete"
IsTerminal(m) == m.type \in {"Parsed", "Empty"}

\* Number of Work::Directory messages in B.
TaskCount(B) ==
    BagCardinality(Restrict(B, {m \in BagToSet(B) : IsTask(m)}))

\* Number of Work::DiscoveryComplete messages in B.
CompleteCount(B) ==
    BagCardinality(Restrict(B, {m \in BagToSet(B) : IsDiscoveryComplete(m)}))

\* Number of Work::Parsed and Work::Empty messages of B that carry index i.
TerminalCount(B, i) ==
    BagCardinality(Restrict(B, {m \in BagToSet(B) :
                                   IsTerminal(m) /\ m.index = i}))

\* Number of Work::Empty messages of B that carry index i.
EmptyCount(B, i) ==
    BagCardinality(Restrict(B, {m \in BagToSet(B) :
                                   m.type = "Empty" /\ m.index = i}))

\* Number of Work::Parsed messages of B that carry index i.
ParsedCount(B, i) ==
    BagCardinality(Restrict(B, {m \in BagToSet(B) :
                                   m.type = "Parsed" /\ m.index = i}))

\* The indices the Walker has sent a task for.
TaskIndices == {m.index : m \in {x \in BagToSet(sent) : IsTask(x)}}

\* The indices for which processor::process returned None.
FailedIndices ==
    {e.index : e \in {x \in BagToSet(processed) : x.result = "None"}}

\* The run is over: main returned, or its panic ended the process.
RunEnded == agg \in {"returned", "aborted"}

\* The receive loop ended because rx.recv() returned Err.
LoopEnded == agg \in {"drained", "returned"}

----------------------------------------------------------------------------
\* C1: for every DiscoveryTask the Walker sent, exactly one terminal message
\* (Parsed or Empty) with that task's index is received by the Aggregator by
\* the time the run is over: never zero, never two.
C1_ExactlyOneTerminalPerTask ==
    RunEnded => \A i \in TaskIndices : TerminalCount(handled, i) = 1

\* C2: the count carried by DiscoveryComplete equals the number of
\* DiscoveryTask messages the Walker sent.
C2_TotalCountIsTasksSent ==
    \A m \in BagToSet(sent) :
        IsDiscoveryComplete(m) => m.count = TaskCount(sent)

\* C3: when the receive loop ends on the closed channel in a run where
\* DiscoveryComplete{total} was received, Progress.count equals total.
C3_ProcessedReachesTotal ==
    LoopEnded =>
        \A m \in BagToSet(handled) :
            IsDiscoveryComplete(m) => pb.count = m.count

\* C4: the output destination file never gets a DiscoveryTask and is never
\* the subject of a Parsed (Hashed) or Empty (Skipped) message.
C4_SinkNeverATask ==
    \A m \in BagToSet(sent) :
        (IsTask(m) \/ IsTerminal(m)) => tree[m.index + 1] # "sink"

\* C5: the Walker emits a DiscoveryTask only for regular files, never for a
\* directory (the scan root included).
C5_TasksOnlyForRegularFiles ==
    \A m \in BagToSet(sent) :
        IsTask(m) => tree[m.path] \in {"file", "sink"}

C7_LoopEndsOnDisconnect == <>(agg = "drained")

\* C8: when the receive loop exits, every message ever sent on the channel has
\* been received, nothing is buffered, and no job is queued or running in
\* the pool.
C8_NoMessageDropped ==
    LoopEnded =>
        /\ handled = sent
        /\ chan = <<>>
        /\ queue = <<>>
        /\ active = EmptyBag

C8_Witness ==
    /\ agg = "drained"
    /\ TaskCount(handled) >= 2
    /\ CompleteCount(handled) = 1
    /\ \E i \in TaskIndices : ParsedCount(handled, i) = 1
    /\ \E i \in TaskIndices : EmptyCount(handled, i) = 1

\* The Aggregator takes a Work::Empty off the channel in this step.
HandlesEmpty ==
    /\ agg = "recv"
    /\ chan # <<>>
    /\ Head(chan).type = "Empty"
    /\ handled' # handled

C10_OnlyResultLines ==
    mode = "File" =>
        /\ \A k \in 1..Len(output) :
              /\ output[k].kind = "hash"
              /\ tree[output[k].path] # "sink"
        /\ agg = "returned" =>
              \A p \in 1..Len(tree) :
                 (tree[p] = "file" /\ ParsedCount(sent, p - 1) = 1) =>
                    Cardinality({k \in 1..Len(output) :
                                    output[k].path = p}) = 1

----------------------------------------------------------------------------
\* Number of Work::Parsed and Work::Empty messages in B.
TerminalTotal(B) ==
    BagCardinality(Restrict(B, {m \in BagToSet(B) : IsTerminal(m)}))

\* Number of Work::Parsed messages in B.
ParsedTotal(B) ==
    BagCardinality(Restrict(B, {m \in BagToSet(B) : m.type = "Parsed"}))

\* C11: in every reachable state success-count equals the number of lines
\* written, processed-count equals the number of Hashed plus Skipped messages
\* handled, and success-count <= processed-count.
C11_CountersMatchHandled ==
    /\ pb.success = Len(output)
    /\ pb.count = TerminalTotal(handled)
    /\ pb.success <= pb.count

\* C12: with console output the reporter stays a no-op for the whole run (not
\* enabled, presentation None) while count and success are still maintained;
\* with file output the reporter is enabled and has a presentation.
C12_ConsoleReporterNoOp ==
    /\ mode = "Stdout" =>
          /\ ~pb.enabled
          /\ pb.pb = "None"
          /\ RxAlive => /\ pb.count = TerminalTotal(handled)
                        /\ pb.success = ParsedTotal(handled)
    /\ mode = "File" =>
          /\ pb.enabled
          /\ pb.pb # "None"

C12_Witness ==
    /\ mode = "Stdout"
    /\ agg = "drained"
    /\ CompleteCount(handled) = 1
    /\ pb.count >= 2
    /\ pb.success >= 1
    /\ pb.pb = "None"

\* C13: with the reporter enabled the presentation is Tick until
\* DiscoveryComplete is handled and Inc from then on, never Tick again; the
\* switch sets the bar to the processed-count so far, and afterwards the bar
\* position equals processed-count.
C13_TickThenBar ==
    /\ [](mode = "File" =>
            /\ CompleteCount(handled) = 0 => pb.pb = "Tick"
            /\ CompleteCount(handled) = 1 =>
                  /\ pb.pb = "Inc"
                  /\ pb.current = pb.count)
    /\ [][pb.pb = "Inc" => pb'.pb = "Inc"]_vars
    /\ [][(pb.pb = "Tick" /\ pb'.pb = "Inc") =>
             /\ CanRecv("DiscoveryComplete")
             /\ pb'.current = pb.count
             /\ pb'.count = pb.count]_vars

C13_Witness ==
    /\ mode = "File"
    /\ pb.pb = "Inc"
    /\ pb.current >= 2
    /\ pb.current = pb.count
    /\ chan # <<>>
    /\ Head(chan).type \in {"Parsed", "Empty"}

\* Number of hash jobs for index i in the pool's queue.
QueuedJobs(i) ==
    Cardinality({k \in 1..Len(queue) :
                    queue[k].type = "hash" /\ queue[k].index = i})

\* Number of hash jobs for index i that pool threads are running.
ActiveJobs(i) ==
    BagCardinality(Restrict(active, {j \in BagToSet(active) :
                                        j.type = "hash" /\ j.index = i}))

\* Number of finished runs of processor::process for index i.
Runs(i) ==
    BagCardinality(Restrict(processed, {e \in BagToSet(processed) :
                                           e.index = i}))

\* Number of Work::Directory messages with index i the Aggregator received.
Submitted(i) ==
    BagCardinality(Restrict(handled, {m \in BagToSet(handled) :
                                         IsTask(m) /\ m.index = i}))

\* C14: a task is submitted to the pool exactly once when its Work::Directory
\* is received, and is at any time queued, running or finished, in one copy:
\* process runs at most once per task index, never again after a failure, and
\* never twice at the same time.
C14_AtMostOneExecution ==
    \A i \in 0..(Len(tree) - 1) :
        /\ Submitted(i) <= 1
        /\ QueuedJobs(i) + ActiveJobs(i) + Runs(i) = Submitted(i)

C14_Witness ==
    /\ agg = "drained"
    /\ \E i \in FailedIndices : tree[i + 1] = "file" /\ Runs(i) = 1
    /\ \E i \in TaskIndices : ParsedCount(handled, i) = 1 /\ Runs(i) = 1

\* C18: handling a Hashed message never aborts the Aggregator: main neither
\* panics nor ends the process before the channel is drained.
C18_HashedNeverAborts == agg \notin {"panicked", "aborted"}

\* C19: no send happens on a closed channel: no send has failed, and the
\* receiver is gone only when no Sender is left.
C19_NoSendOnClosedChannel ==
    /\ ~signal_failed
    /\ ~RxAlive => senders = 0

\* C20: the Aggregator handles DiscoveryComplete only after it has received
\* and submitted every DiscoveryTask of the run; processed-count never exceeds
\* the number of tasks submitted, in particular when the bar becomes
\* determinate.
C20_CompleteAfterEveryTask ==
    /\ [](CompleteCount(handled) = 1 =>
            /\ TaskCount(handled) = Len(tree)
            /\ TaskCount(handled) = TaskCount(sent)
            /\ next_index = Len(tree))
    /\ [](pb.count <= TaskCount(handled))
    /\ [][(pb.pb = "Tick" /\ pb'.pb = "Inc") =>
             /\ TaskCount(handled') = Len(tree)
             /\ pb'.count <= TaskCount(handled')]_vars

C20_Witness ==
    /\ pb.pb = "Inc"
    /\ agg = "recv"
    /\ TaskCount(handled) >= 2
    /\ pb.count >= 1
    /\ pb.count < TaskCount(handled)

----------------------------------------------------------------------------
\* processor::process, one read() at a time: the job for the file at index 1
\* of the tree <<"dir", "file">> on a pool of one thread, from the open to the
\* Aggregator's handling of the message the job sends.

\* if n > 1024 { 1024 } else { n }
InspectLimit == 1024

\* let mut buffer = [0u8; 1024 * 1024]
BufferSize == 1024 * 1024

\* Reads that return fewer bytes than remain, per file.
MaxShortReads == 2

Min(a, b) == IF a < b THEN a ELSE b

\* Byte-order marks content_inspector knows, as bytes.
ByteOrderMark(name) ==
    CASE name = "UTF_8_BOM" -> <<239, 187, 191>>
      [] name = "UTF_32LE"  -> <<255, 254, 0, 0>>
      [] name = "UTF_32BE"  -> <<0, 0, 254, 255>>
      [] name = "UTF_16LE"  -> <<255, 254>>
      [] name = "UTF_16BE"  -> <<254, 255>>
      [] OTHER              -> <<>>

\* A file of len bytes: the mark, then the letter 'a', with a zero byte at
\* position nul (0: no zero byte).
FileBytes(len, mark, nul) ==
    [p \in 1..len |->
        IF p <= Len(ByteOrderMark(mark)) THEN ByteOrderMark(mark)[p]
        ELSE IF p = nul THEN 0
        ELSE 97]

FileLens == {0, 1, 2, 5, InspectLimit, InspectLimit + 2}
NulPositions == {0, 1, 2, 5, InspectLimit, InspectLimit + 1}

\* The files the bounded check reads.
Files ==
    {FileBytes(len, mark, nul) :
        len \in FileLens,
        mark \in {"none", "UTF_8_BOM", "UTF_32LE", "UTF_32BE", "UTF_16LE",
                  "UTF_16BE"},
        nul \in NulPositions}

StartsWith(buf, prefix) ==
    /\ Len(buf) >= Len(prefix)
    /\ SubSeq(buf, 1, Len(prefix)) = prefix

\* content_inspector::inspect(buf): the first byte-order mark buf starts with,
\* in the library's order (UTF-32 before UTF-16), else BINARY when buf holds a
\* zero byte, else UTF_8.
inspect(buf) ==
    IF StartsWith(buf, ByteOrderMark("UTF_8_BOM")) THEN "UTF_8_BOM"
    ELSE IF StartsWith(buf, ByteOrderMark("UTF_32LE")) THEN "UTF_32LE"
    ELSE IF StartsWith(buf, ByteOrderMark("UTF_32BE")) THEN "UTF_32BE"
    ELSE IF StartsWith(buf, ByteOrderMark("UTF_16LE")) THEN "UTF_16LE"
    ELSE IF StartsWith(buf, ByteOrderMark("UTF_16BE")) THEN "UTF_16BE"
    ELSE IF \E p \in 1..Len(buf) : buf[p] = 0 THEN "BINARY"
    ELSE "UTF_8"

\* The job whose process call is followed, and the pipeline around it: the
\* Walker has finished, the root's Work::Empty and DiscoveryComplete have been
\* handled, and the only pool thread has taken the job of the file.
FollowedJob == HashJob(2, 1)

JobTaken ==
    /\ tree = <<"dir", "file">>
    /\ max_count = 1
    /\ queue = <<>>
    /\ active = SetToBag({FollowedJob})
    /\ count = 1
    /\ next_index = 2
    /\ chan = <<>>
    /\ senders = 1
    /\ agg = "recv"
    /\ pb = inc(build_bar(build_status(IF mode = "File"
                                       THEN set_enabled(Progress_new, TRUE)
                                       ELSE Progress_new), 1))
    /\ output = <<>>
    /\ docs = <<>>
    /\ signal_failed = FALSE
    /\ sent = SetToBag({Directory(1, 0), Directory(2, 1), DiscoveryComplete(1),
                        Empty(0)})
    /\ handled = sent
    /\ processed = SetToBag({[index |-> 0, result |-> "None"]})

\* The locals of process at its first line.
InitRead ==
    /\ mode \in {"File", "Stdout"}
    /\ JobTaken
    /\ \E f \in Files :
          rd = [state |-> "open", file |-> f, pos |-> 0, short |-> 0,
                hash |-> <<>>, content_type |-> "EMPTY", content |-> <<>>,
                result |-> "-", err |-> FALSE]

pipeline == <<mode, tree, max_count, queue, active, count, next_index, chan,
              senders, agg, pb, output, docs, signal_failed, sent, handled,
              processed>>

\* OpenOptions::new().read(true)...open(path) succeeds.
OpenOk ==
    /\ rd.state = "open"
    /\ rd' = [rd EXCEPT !.state = "reading"]
    /\ UNCHANGED pipeline

\* .open(path).ok()? returns None.
OpenErr ==
    /\ rd.state = "open"
    /\ rd' = [rd EXCEPT !.state = "done", !.result = "None", !.err = TRUE]
    /\ UNCHANGED pipeline

\* The sizes a read() of a file with `remaining` bytes left may return: anything
\* from 1 to min(remaining, buffer length); the bounded check tries a few short
\* ones and the full one.
ReadSizes(remaining, short) ==
    {n \in {1, 2, 3, 4, InspectLimit} : n < remaining /\ short < MaxShortReads}
        \cup {Min(remaining, BufferSize)}

\* The Ok(n) arm with every byte read fed to the hash replaced by one that
\* feeds only the bytes given to the classifier.
ReadChunk_HashInspectedBytes ==
    /\ rd.state = "reading"
    /\ rd.pos < Len(rd.file)
    /\ \E n \in ReadSizes(Len(rd.file) - rd.pos, rd.short) :
          LET buffer == SubSeq(rd.file, rd.pos + 1, rd.pos + n)
              len == IF n > InspectLimit THEN InspectLimit ELSE n
              content_type == IF rd.content_type = "EMPTY"
                              THEN inspect(SubSeq(buffer, 1, len))
                              ELSE rd.content_type
          IN  rd' = [rd EXCEPT
                       !.content_type = content_type,
                       !.content = IF content_type # "BINARY"
                                   THEN @ \o buffer ELSE @,
                       !.hash = @ \o SubSeq(buffer, 1, len),
                       !.pos = @ + n,
                       !.short = IF n < Len(rd.file) - rd.pos THEN @ + 1 ELSE @]
    /\ UNCHANGED pipeline

\* Ok(n), n > 0: classify on the first read, keep the text, update the hash.
ReadChunk ==
    /\ rd.state = "reading"
    /\ rd.pos < Len(rd.file)
    /\ \E n \in ReadSizes(Len(rd.file) - rd.pos, rd.short) :
          LET buffer == SubSeq(rd.file, rd.pos + 1, rd.pos + n)
              len == IF n > InspectLimit THEN InspectLimit ELSE n
              content_type == IF rd.content_type = "EMPTY"
                              THEN inspect(SubSeq(buffer, 1, len))
                              ELSE rd.content_type
          IN  rd' = [rd EXCEPT
                       !.content_type = content_type,
                       !.content = IF content_type # "BINARY"
                                   THEN @ \o buffer ELSE @,
                       !.hash = @ \o buffer,
                       !.pos = @ + n,
                       !.short = IF n < Len(rd.file) - rd.pos THEN @ + 1 ELSE @]
    /\ UNCHANGED pipeline

\* The Ok(0) arm returning None for a file that got no content type.
ReadEof_NoneWithoutType ==
    /\ rd.state = "reading"
    /\ rd.pos = Len(rd.file)
    /\ rd' = [rd EXCEPT !.state = "done",
                        !.result = IF rd.content_type = "EMPTY"
                                   THEN "None" ELSE "Some"]
    /\ UNCHANGED pipeline

\* Ok(0) => break Some(ParsedFile::new(hash.digest(), content, content_type))
ReadEof ==
    /\ rd.state = "reading"
    /\ rd.pos = Len(rd.file)
    /\ rd' = [rd EXCEPT !.state = "done", !.result = "Some"]
    /\ UNCHANGED pipeline

\* Err(_) => break None
ReadErr ==
    /\ rd.state = "reading"
    /\ rd' = [rd EXCEPT !.state = "done", !.result = "None", !.err = TRUE]
    /\ UNCHANGED pipeline

\* The job's closure after process returned: send Work::Empty or Work::Parsed
\* and drop tx.
SendResult ==
    /\ rd.state = "done"
    /\ Alive
    /\ BagIn(FollowedJob, active)
    /\ LET r == IF rd.result = "None" THEN "None" ELSE rd.content_type IN
          /\ processed' = processed (+)
                             SetToBag({[index |-> FollowedJob.index, result |-> r]})
          /\ IF r = "None"
             THEN Send(Empty(FollowedJob.index))
             ELSE Send(Parsed(r, FollowedJob.path, FollowedJob.index))
    /\ active' = active (-) SetToBag({FollowedJob})
    /\ senders' = senders - 1
    /\ rd' = [rd EXCEPT !.state = "sent"]
    /\ UNCHANGED <<mode, tree, max_count, queue, count, next_index, agg, pb,
                   output, docs, handled>>

NextRead ==
    \/ OpenOk
    \/ OpenErr
    \/ ReadChunk
    \/ ReadEof
    \/ ReadErr
    \/ SendResult
    \/ RecvEmpty
    \/ RecvParsed
    \/ RecvDisconnected
    \/ SearchAndPrint
    \/ Abort

ReadSpec == InitRead /\ [][NextRead]_vars

\* process has returned.
Returned == rd.state \in {"done", "sent"}

\* The Aggregator has taken the followed job's message off the channel.
MessageHandled == rd.state = "sent" /\ chan = <<>>

\* C15: the tag process returns is the classification of the file's first
\* 1024 bytes (of the whole file when it is shorter), however the bytes were
\* split across read() calls.
C15_TagFromFirst1024Bytes ==
    (Returned /\ rd.result = "Some" /\ Len(rd.file) > 0) =>
        rd.content_type =
            inspect(SubSeq(rd.file, 1, Min(Len(rd.file), InspectLimit)))

\* C16: the bytes fed to the hash accumulator, in order, are the bytes read so
\* far, and on success exactly the bytes of the file, for every split into
\* reads.
C16_HashInputIsFileBytes ==
    rd.state \in {"reading", "done", "sent"} =>
        /\ rd.hash = SubSeq(rd.file, 1, rd.pos)
        /\ rd.result = "Some" => rd.hash = rd.file

C16_Witness ==
    /\ Returned
    /\ rd.result = "Some"
    /\ Len(rd.file) > InspectLimit
    /\ rd.short = 2
    /\ rd.content_type = "BINARY"

\* C17 as claimed: a zero-length file that opens and reads without error ends
\* as a Skipped message: processed-count incremented, success-count not, no
\* output line.
C17_EmptyFileIsSkipped ==
    (MessageHandled /\ rd.file = <<>> /\ ~rd.err) =>
        /\ EmptyCount(handled, FollowedJob.index) = 1
        /\ pb.count = 2
        /\ pb.success = 0
        /\ output = <<>>

\* C17 amended: a zero-length file that opens and reads without error ends as
\* a Hashed (Work::Parsed) message with no content type, never a Skipped one;
\* handling it writes one output line with the content type EMPTY and
\* increments processed-count and success-count, unless print_hash panics in
\* console mode before anything is written or counted.
C17_EmptyFileIsHashedAsEmpty ==
    (Returned /\ rd.file = <<>> /\ ~rd.err) =>
        /\ rd.result = "Some"
        /\ rd.content_type = "EMPTY"
        /\ rd.state = "sent" =>
              /\ sent[Parsed("EMPTY", FollowedJob.path, FollowedJob.index)] = 1
              /\ ParsedCount(sent, FollowedJob.index) = 1
              /\ EmptyCount(sent, FollowedJob.index) = 0
        /\ MessageHandled =>
              IF agg \in {"panicked", "aborted"}
              THEN /\ mode = "Stdout"
                   /\ output = <<>>
                   /\ pb.count = 1
                   /\ pb.success = 0
              ELSE /\ pb.count = 2
                   /\ pb.success = 1
                   /\ Len(output) >= 1
                   /\ output[1] = HashLine("EMPTY", FollowedJob.path)
                   /\ \A k \in 2..Len(output) : output[k].kind = "doc"

C17_Witness ==
    /\ MessageHandled
    /\ rd.file = <<>>
    /\ ~rd.err
    /\ mode = "File"
    /\ agg = "drained"
    /\ pb.success = 1
    /\ Len(output) = 1

====
